---------------------------- MODULE Spec2Model ----------------------------
(***************************************************************************)
(* The multi-period inventory replenishment notebook (src/inventory.ipynb) *)
(* as a state machine.  The state is the state of the Jupyter kernel: the  *)
(* OR-Tools solver session created by the first cell (its registered       *)
(* variables, constraints and objective), the Python globals set by the    *)
(* data cell, the handle dictionaries x / intake / inv / lost, and what    *)
(* the solve cell computed and printed.  One action per code cell.         *)
(*                                                                         *)
(* Periods are numbered t = 1..N here; the code's index is i = t - 1.      *)
(* Money is counted in units of 1/CostUnit (cents), so that the holding    *)
(* cost selling_price * 0.01 is the integer selling_price.                 *)
(* A Python float is a fixed-point number counted in units of 1/Res.       *)
(* The MIP solver is external: Solve is modelled by what it guarantees,    *)
(* an exact optimum of the registered model, chosen nondeterministically   *)
(* among all optima; solver.infinity() is a finite bound of the model.     *)
(***************************************************************************)
EXTENDS Integers, Sequences, FiniteSets

VARIABLES
    solver,   \* the pywraplp.Solver session: made, gens, cons, obj
    data,     \* the globals of the Problem Data cell
    dicts,    \* the handle dictionaries x, intake, inv, lost: [g, n]
    report,   \* what the solve cell assigned and printed
    last      \* the cell executed last (0: fresh kernel)

vars == <<solver, data, dicts, report, last>>

-----------------------------------------------------------------------------
(* Bounds of the model *)

\* solver.infinity() in a top-to-bottom run
MaxQty == 14
\* solver.infinity() when cells are re-executed
MaxQtyRerun == 2
\* executions of the Variables cell in one kernel session
MaxGens == 2
\* largest period count of the small input family
MaxN == 2
\* largest stock, demand entry and MOQ of the small input family
MaxVal == 2
\* resolution of the fixed-point model of a Python float
Res == 4

(* Program constants *)

\* the literal 1000000 of constraint (1)
BigM == 1000000
\* selling_price * 0.01: one cost unit is 1/100
CostUnit == 100
\* status codes of pywraplp, as listed in the solve cell's comment
OPTIMAL == 0
FEASIBLE == 1
INFEASIBLE == 2
UNBOUNDED == 3
ABNORMAL == 4
NOT_SOLVED == 6

-----------------------------------------------------------------------------
(* Helpers *)

Max(a, b) == IF a >= b THEN a ELSE b

RECURSIVE SumSeq(_)
SumSeq(s) == IF s = <<>> THEN 0 ELSE s[1] + SumSeq(Tail(s))

\* the only element of a one-element set
The(S) == CHOOSE e \in S : TRUE

\* the least element of a non-empty set of integers
Least(S) == CHOOSE e \in S : \A f \in S : e <= f

-----------------------------------------------------------------------------
(* The Problem Data cell: the inputs of a planning run *)

NoData ==
    [defined |-> FALSE, stock_level |-> 0, selling_price |-> 0,
     number_of_days |-> 0, demand |-> <<>>, moq |-> 0, delivery_cost |-> 0]

\* the data the notebook ships with
NotebookData ==
    [defined |-> TRUE, stock_level |-> 4, selling_price |-> 10,
     number_of_days |-> 10, demand |-> <<3, 5, 3, 5, 3, 5, 3, 5, 3, 5>>,
     moq |-> 10, delivery_cost |-> 1]

\* range(number_of_days) has max(number_of_days, 0) elements
RangeLen(n) == Max(n, 0)

\* a forecast that alternates between two values, as the notebook's does
Alternating(n, a, b) == [t \in 1..n |-> IF t % 2 = 1 THEN a ELSE b]

\* Small inputs, the invalid ones (period count <= 0, negative demand, MOQ
\* or delivery cost) included: the data cell assigns literals, unchecked.
\* With a selling price of 0 every cost but the delivery cost vanishes and
\* the optima are many: those inputs are kept to one period.
SmallInputs ==
    { d \in [defined : {TRUE}, stock_level : {0, MaxVal}, selling_price : 0..1,
             number_of_days : -1..MaxN,
             demand : {Alternating(n, a, b) :
                          n \in 0..MaxN, a, b \in {-1, 0, 1, MaxVal}},
             moq : {-1, 0, MaxVal}, delivery_cost : -1..1] :
        /\ Len(d.demand) = RangeLen(d.number_of_days)
        /\ d.selling_price > 0 \/ d.number_of_days <= 1 }

\* inputs whose MOQ exceeds the literal 1000000 of constraint (1), so that
\* no order is possible
LargeMoqInputs ==
    { d \in [defined : {TRUE}, stock_level : {0, MaxVal}, selling_price : {1},
             number_of_days : {MaxN},
             demand : {Alternating(MaxN, a, b) : a, b \in {0, MaxVal}},
             moq : {BigM + 1}, delivery_cost : {0, 1}] : TRUE }

Inputs == SmallInputs \cup {NotebookData} \cup LargeMoqInputs

\* the inputs used when cells are re-executed
RerunInputs ==
    { d \in [defined : {TRUE}, stock_level : {1}, selling_price : {1},
             number_of_days : {1}, demand : {<<0>>, <<1>>},
             moq : {1}, delivery_cost : {1}] : TRUE }

\* a faulty variant: the rate taken by whole-number division, selling_price
\* // 100
inventory_holding_costWhole(d) == (d.selling_price \div 100) * CostUnit

\* inventory_holding_cost = selling_price * 0.01, in units of 1/CostUnit
inventory_holding_cost(d) == (d.selling_price * CostUnit) \div 100

\* lost_sales_cost = selling_price, in units of 1/CostUnit
lost_sales_cost(d) == d.selling_price * CostUnit

-----------------------------------------------------------------------------
(* The solver session *)

NoObjective == [g |-> 0, n |-> 0, dc |-> 0, hc |-> 0, lc |-> 0]

NoSolver == [made |-> FALSE, gens |-> <<>>, cons |-> {}, obj |-> NoObjective]

\* solver.BoolVar: the domain of x[i]
BoolVarDomain == 0..1

\* a faulty variant: the lower bound 0 of IntVar missing
IntVarDomainNoLower(ub) == -1..ub

\* solver.IntVar(0, solver.infinity(), ...): the domain of intake[i], inv[i]
\* and lost[i], with ub standing for solver.infinity()
IntVarDomain(ub) == 0..ub

\* Constraint (1) for the periods 1..n of generation g
Cons1(g, n) == {[fam |-> 1, g |-> g, t |-> t, a |-> 0, b |-> 0] : t \in 1..n}

\* Constraint (2) for the periods 1..n of generation g
Cons2(g, n, m) == {[fam |-> 2, g |-> g, t |-> t, a |-> m, b |-> 0] : t \in 1..n}

\* a faulty variant: the first period starts from an empty warehouse
Cons3NoStock(g, n, stock, dem) ==
    {[fam |-> 3, g |-> g, t |-> t, a |-> dem[t], b |-> 0] : t \in 1..n}

\* Constraint (3): a holds demand[i]; b holds stock_level for i == 0
Cons3(g, n, stock, dem) ==
    {[fam |-> 3, g |-> g, t |-> t, a |-> dem[t],
      b |-> IF t = 1 THEN stock ELSE 0] : t \in 1..n}

\* a faulty variant: the indicator left out of constraint (1)
Sat1NoIndicator(c) == c.q <= BigM

\* intake[i] <= 1000000 * x[i]
Sat1(c) == c.q <= BigM * c.x

\* a faulty variant: the MOQ left out of constraint (2)
Sat2NoMoq(c, m) == c.q >= c.x

\* a faulty variant: the indicator left out of constraint (2)
Sat2NoIndicator(c, m) == c.q >= m

\* intake[i] >= moq * x[i]
Sat2(c, m) == c.q >= m * c.x

\* a faulty variant: the demand left out of constraint (3)
InflowNoDemand(prev, q, d, l) == prev + q + l

\* the left-hand side of constraint (3): prev is stock_level for i == 0 and
\* the value of inv[i-1] otherwise
Inflow(prev, q, d, l) == prev + q - d + l

\* a faulty variant: the holding cost left out of the objective
ObjectiveOfNoHolding(g, d) ==
    [g |-> g, n |-> RangeLen(d.number_of_days),
     dc |-> d.delivery_cost * CostUnit,
     hc |-> 0,
     lc |-> d.selling_price * CostUnit]

\* the objective's coefficients of x[i], inv[i] and lost[i]
ObjectiveOf(g, d) ==
    [g |-> g, n |-> RangeLen(d.number_of_days),
     dc |-> d.delivery_cost * CostUnit,
     hc |-> inventory_holding_cost(d),
     lc |-> d.selling_price * CostUnit]

-----------------------------------------------------------------------------
(* solver.Solve(): the external MIP solver, by what it guarantees.         *)
(* Every registered constraint ties the variables of one period of one     *)
(* generation, and constraint (3) ties them to inv of the period before,   *)
(* so the optimum of a generation is computed backwards along its periods, *)
(* as the least cost-to-go for each value p of the previous inv.           *)

\* the constraints registered on period t of generation g
ConsAt(S, g, t) == {k \in S.cons : k.g = g /\ k.t = t}

\* the values (x, intake, inv, lost) of period t that satisfy every
\* registered constraint, given the value p of inv of the period before
Choices(S, g, t, p) ==
    LET K   == ConsAt(S, g, t)
        D   == IntVarDomain(S.gens[g].ub)
        bal == {k \in K : k.fam = 3}
        XQ  == {c \in [x : BoolVarDomain, q : D] :
                   \A k \in K : /\ k.fam = 1 => Sat1(c)
                                /\ k.fam = 2 => Sat2(c, k.a)}
        In(k, c, l) == Inflow(IF k.t = 1 THEN k.b ELSE p, c.q, k.a, l)
        Vs(c, l) == IF bal = {} THEN D
                    ELSE LET v == In(The(bal), c, l)
                         IN  IF v \in D /\ \A k \in bal : In(k, c, l) = v
                             THEN {v} ELSE {}
    IN  UNION { UNION { {[x |-> c.x, q |-> c.q, v |-> v, l |-> l] : v \in Vs(c, l)}
                        : l \in D } : c \in XQ }

\* a faulty variant: the lost sales left out of the sum
CostNoLost(S, g, t, c) ==
    IF S.obj.g = g /\ t <= S.obj.n
    THEN S.obj.dc * c.x + S.obj.hc * c.v
    ELSE 0

\* what the values c of period t of generation g add to the objective
Cost(S, g, t, c) ==
    IF S.obj.g = g /\ t <= S.obj.n
    THEN S.obj.dc * c.x + S.obj.hc * c.v + S.obj.lc * c.l
    ELSE 0

\* the least cost of the periods t.. for each previous inv p ({} if none is
\* feasible), nxt being the same for the periods t+1..; the first period has
\* no previous inv and its row the one entry 0
Row(S, g, t, nxt) ==
    [p \in IF t = 1 THEN {0} ELSE IntVarDomain(S.gens[g].ub) |->
        LET costs == {Cost(S, g, t, c) + The(nxt[c.v]) :
                        c \in {e \in Choices(S, g, t, p) : nxt[e.v] # {}}}
        IN  IF costs = {} THEN {} ELSE {Least(costs)}]

\* the rows of the periods t..n of generation g, and a last row of zeros
RECURSIVE Rows(_, _, _)
Rows(S, g, t) ==
    IF t > S.gens[g].n
    THEN <<[p \in IntVarDomain(S.gens[g].ub) |-> {0}]>>
    ELSE The({<<Row(S, g, t, rest[1])>> \o rest : rest \in {Rows(S, g, t + 1)}})

\* every optimal assignment of the periods t..n of generation g, T being
\* Rows(S, g, 1) and p the previous inv
RECURSIVE OptPlans(_, _, _, _, _)
OptPlans(S, g, T, t, p) ==
    IF t > S.gens[g].n THEN {<<>>}
    ELSE UNION { {<<c>> \o r : r \in OptPlans(S, g, T, t + 1, c.v)} :
                 c \in {e \in Choices(S, g, t, p) :
                          /\ T[t + 1][e.v] # {}
                          /\ Cost(S, g, t, e) + The(T[t + 1][e.v]) = The(T[t][p])} }

Gens(S) == 1..Len(S.gens)

\* the rows of every generation
Tables(S) == [h \in Gens(S) |-> Rows(S, h, 1)]

\* a generation has a feasible point, T being Tables(S)
Feasible(T, h) == T[h][1][0] # {}

\* what OR-Tools reads for the handles of generation g after a failed solve
ZeroSolution(S, g) ==
    IF g \in Gens(S)
    THEN [t \in 1..S.gens[g].n |-> [x |-> 0, q |-> 0, v |-> 0, l |-> 0]]
    ELSE <<>>

\* the outcomes of one solve, T being Tables(S)
Outcomes(S, g, T) ==
    IF \A h \in Gens(S) : Feasible(T, h)
    THEN LET og   == S.obj.g
             val  == IF og \in Gens(S) THEN The(T[og][1][0]) ELSE 0
             sols == IF g \in Gens(S) THEN OptPlans(S, g, T[g], 1, 0) ELSE {<<>>}
         IN  {[status |-> OPTIMAL, objective |-> val, sol |-> s] : s \in sols}
    ELSE {[status |-> INFEASIBLE, objective |-> 0, sol |-> ZeroSolution(S, g)]}

\* The outcomes of solver.Solve() for the handles of generation g (0: none):
\* no limit is set, so the search ends OPTIMAL or INFEASIBLE; after a
\* failure OR-Tools reads every value and the objective as 0.
SolverResult(S, g) == UNION {Outcomes(S, g, T) : T \in {Tables(S)}}

-----------------------------------------------------------------------------
(* Result extraction, as the solve cell does it *)

\* MPVariable.solution_value() of an integer variable k of a MIP: a float,
\* which OR-Tools rounds to the nearest whole number before returning it
solution_value(k) == k * Res

\* Python's int(): truncation toward zero
PyInt(f) == IF f >= 0 THEN f \div Res ELSE -((-f) \div Res)

\* the "Total figures" loop: the values of the periods with x[i] == 1
RECURSIVE TotalOf(_, _)
TotalOf(xs, vals) ==
    IF xs = <<>> THEN 0
    ELSE (IF xs[1] = solution_value(1) THEN vals[1] ELSE 0)
         + TotalOf(Tail(xs), Tail(vals))

NoReport ==
    [stage |-> "none", status |-> NOT_SOLVED, objective_value |-> 0,
     x |-> <<>>, intake |-> <<>>, demand |-> <<>>, inv |-> <<>>, lost |-> <<>>,
     total_intake_qty |-> 0, total_inventory |-> 0, total_lost_sales_qty |-> 0]

\* the table and the totals of the solve cell, from the floats xs, qs, vs
\* and ls that solution_value() returned for x, intake, inv and lost
TableOf(status, objective, xs, qs, vs, ls, d) ==
    LET N == RangeLen(d.number_of_days)
    IN  [stage |-> "full", status |-> status,
         objective_value |-> objective,
         x |-> xs,
         intake |-> [t \in 1..N |-> PyInt(qs[t])],
         demand |-> [t \in 1..N |-> d.demand[t]],
         inv |-> [t \in 1..N |-> PyInt(vs[t])],
         lost |-> [t \in 1..N |-> PyInt(ls[t])],
         total_intake_qty |-> PyInt(TotalOf(xs, qs)),
         total_inventory |-> PyInt(TotalOf(xs, vs)),
         total_lost_sales_qty |-> PyInt(TotalOf(xs, ls))]

\* the solve cell from its first print on, r being the solver's outcome;
\* the table loops raise when a name or a handle is missing
ReportOf(r, d, m) ==
    IF ~d.defined \/ d.number_of_days > m
    THEN [NoReport EXCEPT !.stage = "status", !.status = r.status,
                          !.objective_value = r.objective]
    ELSE LET N == RangeLen(d.number_of_days)
         IN  TableOf(r.status, r.objective,
                     [t \in 1..N |-> solution_value(r.sol[t].x)],
                     [t \in 1..N |-> solution_value(r.sol[t].q)],
                     [t \in 1..N |-> solution_value(r.sol[t].v)],
                     [t \in 1..N |-> solution_value(r.sol[t].l)], d)

-----------------------------------------------------------------------------
(* The cells *)

Init ==
    /\ solver = NoSolver
    /\ data = NoData
    /\ dicts = [g |-> 0, n |-> 0]
    /\ report = NoReport
    /\ last = 0

\* cell 1: solver = pywraplp.Solver.CreateSolver('SCIP'), once per kernel
\* (a second session with handles of the first still in the dictionaries is
\* outside this model)
CreateSolver ==
    /\ ~solver.made
    /\ solver' = [NoSolver EXCEPT !.made = TRUE]
    /\ last' = 1
    /\ UNCHANGED <<data, dicts, report>>

\* cell 2: the Problem Data cell assigns its literals, drawn from D
ProblemData(D) ==
    /\ \E d \in D : data' = d
    /\ last' = 2
    /\ UNCHANGED <<solver, dicts, report>>

\* cell 3: resets the four dictionaries and registers four new variables
\* for each i in range(number_of_days)
Variables(ub) ==
    /\ solver.made
    /\ data.defined
    /\ Len(solver.gens) < MaxGens
    /\ LET n == RangeLen(data.number_of_days)
       IN  /\ solver' = [solver EXCEPT !.gens = Append(@, [n |-> n, ub |-> ub])]
           /\ dicts' = [g |-> Len(solver.gens) + 1, n |-> n]
    /\ last' = 3
    /\ UNCHANGED <<data, report>>

\* cell 4: the three loops of solver.Add; when the dictionaries hold fewer
\* handles than number_of_days the first loop raises after the handles it has
Constraints ==
    /\ solver.made
    /\ data.defined
    /\ LET N == RangeLen(data.number_of_days)
           g == dicts.g
           added == IF N <= dicts.n
                    THEN Cons1(g, N) \cup Cons2(g, N, data.moq)
                         \cup Cons3(g, N, data.stock_level, data.demand)
                    ELSE Cons1(g, dicts.n)
       IN  solver' = [solver EXCEPT !.cons = @ \cup added]
    /\ last' = 4
    /\ UNCHANGED <<data, dicts, report>>

\* cell 5: solver.Minimize replaces the objective; the sum raises first when
\* a handle is missing
Objective ==
    /\ solver.made
    /\ data.defined
    /\ RangeLen(data.number_of_days) <= dicts.n
    /\ solver' = [solver EXCEPT !.obj = ObjectiveOf(dicts.g, data)]
    /\ last' = 5
    /\ UNCHANGED <<data, dicts, report>>

\* cell 6: solver.Solve(), the prints, the table and the totals
Solve ==
    /\ solver.made
    /\ \E r \in SolverResult(solver, dicts.g) :
          report' = ReportOf(r, data, dicts.n)
    /\ last' = 6
    /\ UNCHANGED <<solver, data, dicts>>

\* Restart and Run All: the cells once each, top to bottom
Next ==
    \/ last = 0 /\ CreateSolver
    \/ last = 1 /\ ProblemData(Inputs)
    \/ last = 2 /\ Variables(MaxQty)
    \/ last = 3 /\ Constraints
    \/ last = 4 /\ Objective
    \/ last = 5 /\ Solve

Spec == Init /\ [][Next]_vars

\* an interactive session: any cell, in any order, any number of times
NextNotebook ==
    \/ CreateSolver
    \/ ProblemData(RerunInputs)
    \/ Variables(MaxQtyRerun)
    \/ Constraints
    \/ Objective
    \/ Solve

SpecNotebook == Init /\ [][NextNotebook]_vars

-----------------------------------------------------------------------------
(* The extraction step of the solve cell on its own: int(...) applied to   *)
(* the floats that solution_value() hands back, for any backend of the     *)
(* solver whose values carry rounding noise.                               *)

\* the floats within rounding noise of the whole number k: the float of k
\* and its two neighbours at the resolution of the model
Noisy(k) == {solution_value(k) - 1, solution_value(k), solution_value(k) + 1}

\* one-period data for the extraction step; a stock of 6 with no demand
\* gives inv[0] = 6
ExtractionInputs ==
    { d \in [defined : {TRUE}, stock_level : {0, MaxVal, 6}, selling_price : {1},
             number_of_days : {1}, demand : {<<0>>, <<1>>, <<MaxVal>>},
             moq : {0, MaxVal}, delivery_cost : {0, 1}] : TRUE }

\* the session that the cells 1 to 5 build from the data d in a fresh kernel
BuiltFrom(d, ub) ==
    LET N == RangeLen(d.number_of_days)
    IN  [made |-> TRUE,
         gens |-> <<[n |-> N, ub |-> ub]>>,
         cons |-> Cons1(1, N) \cup Cons2(1, N, d.moq)
                  \cup Cons3(1, N, d.stock_level, d.demand),
         obj  |-> ObjectiveOf(1, d)]

\* the solve cell after solver.Solve() and the two status prints: the values
\* of an optimum as the backend hands them back, before the table is printed
InitExtraction ==
    \E d \in ExtractionInputs :
        /\ data = d
        /\ solver = BuiltFrom(d, MaxQty)
        /\ dicts = [g |-> 1, n |-> RangeLen(d.number_of_days)]
        /\ last = 5
        /\ \E r \in SolverResult(BuiltFrom(d, MaxQty), 1) :
              \E fx \in Noisy(r.sol[1].x), fq \in Noisy(r.sol[1].q),
                 fv \in Noisy(r.sol[1].v), fl \in Noisy(r.sol[1].l) :
                  report = [NoReport EXCEPT !.stage = "values",
                                            !.status = r.status,
                                            !.objective_value = r.objective,
                                            !.x = <<fx>>, !.intake = <<fq>>,
                                            !.inv = <<fv>>, !.lost = <<fl>>]

\* the rest of the solve cell: the table loops and the totals
Extract ==
    /\ report.stage = "values"
    /\ report' = TableOf(report.status, report.objective_value, report.x,
                         report.intake, report.inv, report.lost, data)
    /\ last' = 6
    /\ UNCHANGED <<solver, data, dicts>>

NextExtraction == Extract

SpecExtraction == InitExtraction /\ [][NextExtraction]_vars

-----------------------------------------------------------------------------
(* The output recorded in the notebook for its own data *)

\* objective value = 6.800000000000001, in units of 1/CostUnit
RecordedObjective == 680

\* the rows "intake", "inv" and "lost" of the recorded table
RecordedIntake == <<0, 12, 0, 0, 11, 0, 0, 13, 0, 0>>
RecordedInv == <<1, 8, 5, 0, 8, 3, 0, 8, 5, 0>>
RecordedLost == <<0, 0, 0, 0, 0, 0, 0, 0, 0, 0>>

\* the recorded values of period t, x[t] being 1 on the days with an intake
RecordedAt(t) ==
    [x |-> IF RecordedIntake[t] > 0 THEN 1 ELSE 0, q |-> RecordedIntake[t],
     v |-> RecordedInv[t], l |-> RecordedLost[t]]

\* the objective of the registered model at the recorded plan, periods 1..t
RECURSIVE RecordedCost(_)
RecordedCost(t) ==
    IF t = 0 THEN 0
    ELSE Cost(solver, dicts.g, t, RecordedAt(t)) + RecordedCost(t - 1)

-----------------------------------------------------------------------------
(* The plan a run returns *)

\* the solve cell has just run
Solved == last = 6

\* the solve cell has just run to its end on a successful status
Returned ==
    /\ Solved
    /\ report.stage = "full"
    /\ report.status \in {OPTIMAL, FEASIBLE}

Periods == 1..RangeLen(data.number_of_days)

\* indicator[t] of the plan: the value of x[t]
Indicator(t) == PyInt(report.x[t])

\* ending_level[t-1], ending_level[0] being the starting stock
PrevLevel(t) == IF t = 1 THEN data.stock_level ELSE report.inv[t - 1]

\* the inputs the specification admits
ValidInput(d) ==
    /\ d.number_of_days > 0
    /\ \A t \in 1..Len(d.demand) : d.demand[t] >= 0
    /\ d.moq >= 0
    /\ d.delivery_cost >= 0

\* the objective recomputed from the extracted plan
RECURSIVE RecomputedCost(_)
RecomputedCost(t) ==
    IF t = 0 THEN 0
    ELSE data.delivery_cost * CostUnit * Indicator(t)
         + inventory_holding_cost(data) * report.inv[t]
         + lost_sales_cost(data) * report.lost[t]
         + RecomputedCost(t - 1)

-----------------------------------------------------------------------------
(* Claims *)

\* C1: in every returned plan, for every period t,
\* ending_level[t-1] + quantity[t] - demand[t] + lost[t] = ending_level[t],
\* ending_level[0] being the starting stock.
BalanceInvariant ==
    Returned =>
        \A t \in Periods :
            PrevLevel(t) + report.intake[t] - data.demand[t] + report.lost[t]
                = report.inv[t]

\* a two-period plan that orders in the second period from a positive level
BalanceWitness ==
    /\ Returned
    /\ data.number_of_days = 2
    /\ report.inv[1] > 0
    /\ report.intake[2] > 0
    /\ report.inv[2] > 0

\* C2: in every returned plan and period, quantity > 0 implies indicator = 1,
\* indicator = 1 implies quantity >= moq, indicator = 0 implies quantity = 0,
\* so that quantity is 0 or lies in [moq, 1000000].
IndicatorLinkage ==
    Returned =>
        \A t \in Periods :
            /\ report.intake[t] > 0 => Indicator(t) = 1
            /\ Indicator(t) = 1 => report.intake[t] >= data.moq
            /\ Indicator(t) = 0 => report.intake[t] = 0
            /\ \/ report.intake[t] = 0
               \/ data.moq <= report.intake[t] /\ report.intake[t] <= BigM

\* an order raised to the MOQ by a demand below it
IndicatorWitness ==
    /\ Returned
    /\ \E t \in Periods :
          /\ Indicator(t) = 1
          /\ data.moq > 0
          /\ report.intake[t] = data.moq
          /\ data.demand[t] < data.moq
    /\ \E t \in Periods : Indicator(t) = 0

\* C3: the reported totals are the sums over all periods of quantity,
\* ending_level and lost.
AggregateTotals ==
    Returned =>
        /\ report.total_intake_qty = SumSeq(report.intake)
        /\ report.total_inventory = SumSeq(report.inv)
        /\ report.total_lost_sales_qty = SumSeq(report.lost)

\* C4: on a status other than OPTIMAL or FEASIBLE no variable value is read
\* and no plan or total is produced.
NoPlanOnFailure ==
    (Solved /\ report.status \notin {OPTIMAL, FEASIBLE}) => report.stage # "full"

\* C5: an invalid input registers no variable and no constraint and is never
\* sent to the solver.
InputValidation ==
    (\/ \E g \in Gens(solver) : solver.gens[g].n > 0
     \/ solver.cons # {}
     \/ Solved)
        => ValidInput(data)

\* C6: the reported objective value is the sum over the periods of
\* delivery_cost * indicator + holding_cost_rate * ending_level
\* + lost_sales_unit_cost * lost, recomputed from the extracted plan.
ObjectiveReconciliation ==
    Returned =>
        report.objective_value = RecomputedCost(RangeLen(data.number_of_days))

\* a plan that pays for a delivery and for holding
ObjectiveWitness ==
    /\ Returned
    /\ data.selling_price > 0
    /\ data.delivery_cost > 0
    /\ \E t \in Periods : Indicator(t) = 1
    /\ \E t \in Periods : report.inv[t] > 0
    /\ report.objective_value > data.delivery_cost * CostUnit

\* C7: on the notebook's data the solve ends OPTIMAL, nothing is lost in
\* any period and every non-zero order is at least 10.
ForcedOrder ==
    (Solved /\ data = NotebookData) =>
        /\ report.stage = "full"
        /\ report.status = OPTIMAL
        /\ \A t \in Periods :
              /\ report.lost[t] = 0
              /\ report.intake[t] # 0 => report.intake[t] >= 10

\* the notebook's data solved, with an order placed
ForcedOrderWitness ==
    /\ Returned
    /\ data = NotebookData
    /\ \E t \in Periods : report.intake[t] >= 10

\* the one-period inputs with demand within the stock
Degenerate ==
    /\ Returned
    /\ ValidInput(data)
    /\ data.selling_price >= 0
    /\ data.number_of_days = 1
    /\ data.demand[1] <= data.stock_level

DegeneratePlan ==
    /\ report.intake[1] = 0
    /\ report.lost[1] = 0
    /\ report.inv[1] = data.stock_level - data.demand[1]

RunIsolation ==
    Solved =>
        /\ \A g \in Gens(solver) : solver.gens[g].n > 0 => g = dicts.g
        /\ solver.cons \subseteq
              LET N == RangeLen(data.number_of_days)
              IN  Cons1(dicts.g, N) \cup Cons2(dicts.g, N, data.moq)
                  \cup Cons3(dicts.g, N, data.stock_level, data.demand)

\* C10: in every returned plan quantity, ending_level and lost are >= 0 in
\* every period and the indicator is 0 or 1.
NonNegativity ==
    Returned =>
        \A t \in Periods :
            /\ report.intake[t] >= 0
            /\ report.inv[t] >= 0
            /\ report.lost[t] >= 0
            /\ Indicator(t) \in {0, 1}
            /\ report.x[t] \in {solution_value(0), solution_value(1)}

\* a plan of the longest horizon with an order, a stock and a loss at zero
NonNegativityWitness ==
    /\ Returned
    /\ data.number_of_days = MaxN
    /\ \E t \in Periods : report.intake[t] > 0
    /\ \E t \in Periods : report.inv[t] > 0
    /\ \E t \in Periods : report.lost[t] = 0 /\ report.intake[t] = 0

\* the whole number nearest to the float f
Nearest(f) == (2 * f + Res) \div (2 * Res)

SlackPlan ==
    \A t \in Periods :
        /\ ~(report.inv[t] > 0 /\ report.lost[t] > 0)
        /\ report.lost[t]
              = Max(0, data.demand[t] - PrevLevel(t) - report.intake[t])

RecordedOptimum ==
    (Solved /\ data = NotebookData) =>
        /\ report.status = OPTIMAL
        /\ report.objective_value = RecordedObjective
        /\ \A t \in 1..Len(RecordedIntake) :
              RecordedAt(t) \in
                  Choices(solver, dicts.g, t,
                          IF t = 1 THEN 0 ELSE RecordedInv[t - 1])
        /\ RecordedCost(Len(RecordedIntake)) = RecordedObjective

\* the notebook's data solved, the printed table being the recorded one
RecordedWitness ==
    /\ Solved
    /\ data = NotebookData
    /\ report.stage = "full"
    /\ report.intake = RecordedIntake
    /\ report.inv = RecordedInv
    /\ report.lost = RecordedLost
    /\ report.total_intake_qty = SumSeq(RecordedIntake)

\* the plan that never orders: the level after period t, the shortfall of
\* each period being lost
RECURSIVE NeverOrderLevel(_)
NeverOrderLevel(t) ==
    IF t = 0 THEN data.stock_level
    ELSE Max(0, NeverOrderLevel(t - 1) - data.demand[t])

NeverOrderAt(t) ==
    [x |-> 0, q |-> 0, v |-> NeverOrderLevel(t),
     l |-> Max(0, data.demand[t] - NeverOrderLevel(t - 1))]

\* the inputs C14 ranges over
NonNegativeInput ==
    /\ ValidInput(data)
    /\ data.stock_level >= 0
    /\ data.selling_price >= 0

\* C14: for every N >= 1 and every non-negative stock, demand, MOQ, delivery
\* cost and selling price the plan that never orders satisfies every
\* registered constraint, no cost coefficient is negative and the objective
\* is at least 0, so the solve ends OPTIMAL, never INFEASIBLE or UNBOUNDED.
OptimumExists ==
    (Solved /\ NonNegativeInput) =>
        /\ \A t \in Periods :
              NeverOrderAt(t) \in
                  Choices(solver, dicts.g, t,
                          IF t = 1 THEN 0 ELSE NeverOrderLevel(t - 1))
        /\ solver.obj.dc >= 0 /\ solver.obj.hc >= 0 /\ solver.obj.lc >= 0
        /\ report.objective_value >= 0
        /\ report.status = OPTIMAL
        /\ report.status \notin {INFEASIBLE, UNBOUNDED}

\* a solved run whose MOQ exceeds the big-M bound and whose demand exceeds
\* the stock: nothing can be ordered and the shortfall is lost
OptimumExistsWitness ==
    /\ Solved
    /\ NonNegativeInput
    /\ data.moq > BigM
    /\ report.status = OPTIMAL
    /\ \E t \in Periods : report.lost[t] > 0
    /\ \A t \in Periods : report.intake[t] = 0

=============================================================================
